---- MODULE Spec2Model ----
(***************************************************************************)
(* The two experiment drivers of the repository:                           *)
(*   "mm"  = task1_match_mismatch/experiments/dilated_convolutional_model  *)
(*   "reg" = task2_regression/experiments/vlaai_mel                        *)
(* Each is a linear pipeline: load config, make the results folder, build  *)
(* the model, load it or fit it (ModelCheckpoint, CSVLogger and            *)
(* EarlyStopping callbacks), find the test files, build one dataset per    *)
(* test subject, evaluate every subject, dump the evaluation to eval.json. *)
(*                                                                         *)
(* File names are sequences of one-character strings, so that split(),     *)
(* the glob prefix match and Python's substring test `in` are computed     *)
(* character by character, as the code computes them.                      *)
(***************************************************************************)
EXTENDS Integers, Sequences, FiniteSets, TLC

VARIABLES
    script,          \* which of the two scripts runs: "mm" or "reg"
    only_evaluate,   \* the script parameter only_evaluate
    restores_at_end, \* the Keras release: TRUE if EarlyStopping restores the best weights in on_train_end
    previous_run,    \* TRUE if the results folder holds the outputs of an earlier run
    folder,          \* contents of the data folder: a set of paths [dir, name]
    pc,              \* position of the script
    results_folder,  \* TRUE once os.makedirs(results_folder) has run
    model,           \* the model object: {} before it is built, else {weights}
    model_h5,        \* the file model.h5: {} when absent, else {weights}
    training_log,    \* the file training_log.csv: "absent", "old" or "new"
    train_files,
    val_files,
    test_files,
    subjects,
    datasets_test,   \* subject -> files given to the generator of the subject
    todo,            \* keys a running for loop has not visited yet
    evaluating,      \* subjects whose model.evaluate call is running
    evaluation,      \* subject -> result of the evaluation
    eval_json,       \* the file eval.json: [state, data]
    epoch,           \* number of finished epochs of model.fit
    stop_training,   \* model.stop_training
    mc_best,         \* ModelCheckpoint.best
    es_best,         \* EarlyStopping.best
    es_wait,         \* EarlyStopping.wait
    es_best_weights, \* EarlyStopping.best_weights: {} for None, else {weights}
    hist             \* history of the run: what happened, for the properties

vars == << script, only_evaluate, restores_at_end, previous_run, folder, pc,
           results_folder, model, model_h5, training_log, train_files,
           val_files, test_files, subjects, datasets_test, todo, evaluating,
           evaluation, eval_json, epoch, stop_training, mc_best, es_best,
           es_wait, es_best_weights, hist >>

----------------------------------------------------------------------------
(* Parameters of the scripts *)

epochs == 100
patience_mm == 5
patience_reg == 10
patience == IF script = "mm" THEN patience_mm ELSE patience_reg

(* Validation losses are drawn from 0..MaxLoss; Inf stands for np.Inf. *)
MaxLoss == 20
Losses == 0 .. MaxLoss
Inf == MaxLoss + 1

----------------------------------------------------------------------------
(* Strings *)

c_train == << "t", "r", "a", "i", "n" >>
c_val == << "v", "a", "l" >>
c_test == << "t", "e", "s", "t" >>
c_eeg == << "e", "e", "g" >>
c_envelope == << "e", "n", "v", "e", "l", "o", "p", "e" >>
c_mel == << "m", "e", "l" >>
SEP == << "_", "-", "_" >>
DOT == << "." >>
NPY == << ".", "n", "p", "y" >>

stimulus_features == IF script = "mm" THEN { c_envelope } ELSE { c_mel }
features == { c_eeg } \cup stimulus_features

SplitName(split) ==
    CASE split = "train" -> c_train
      [] split = "val" -> c_val
      [] split = "test" -> c_test

(* s.startswith(p) *)
StartsWith(s, p) == Len(p) <= Len(s) /\ SubSeq(s, 1, Len(p)) = p

(* s.find(sep, from - 1) + 1: position of the first occurrence of sep in s
   at or after position from, 0 if there is none *)
Find(s, sep, from) ==
    IF \E i \in from .. (Len(s) - Len(sep) + 1) : SubSeq(s, i, i + Len(sep) - 1) = sep
    THEN CHOOSE i \in from .. (Len(s) - Len(sep) + 1) :
            /\ SubSeq(s, i, i + Len(sep) - 1) = sep
            /\ \A j \in from .. (i - 1) : SubSeq(s, j, j + Len(sep) - 1) # sep
    ELSE 0

(* Python's `sub in s` for strings *)
IsSubstring(sub, s) == Len(sub) = 0 \/ Find(s, sub, 1) # 0

(* The fields of s from position from on: split() scans from the left and
   goes on behind each separator it finds. *)
RECURSIVE SplitFrom(_, _, _)
SplitFrom(s, sep, from) ==
    CHOOSE fields \in
        { IF i = 0
          THEN << SubSeq(s, from, Len(s)) >>
          ELSE << SubSeq(s, from, i - 1) >> \o SplitFrom(s, sep, i + Len(sep))
          : i \in { Find(s, sep, from) } } : TRUE

(* s.split(sep) *)
Split(s, sep) == SplitFrom(s, sep, 1)

Last(q) == q[Len(q)]

(* os.path.basename(x).split("_-_")[-1].split(".")[0] *)
FeatureOf(x) ==
    CHOOSE feature \in
        { Split(last, DOT)[1] : last \in { Last(Split(x.name, SEP)) } } : TRUE

(* os.path.basename(x).split("_-_")[1] *)
SubjectOf(x) == Split(x.name, SEP)[2]

----------------------------------------------------------------------------
(* File discovery *)

(* The folder a split is globbed in: data_folder itself in the match-mismatch
   script, data_folder/<split> in the regression script. *)
GlobDir(split) == IF script = "mm" THEN "." ELSE split

(* Variant: the pattern "*", whatever the split *)
GlobAnySplit(split) == { x \in folder : x.dir = GlobDir(split) }

(* glob.glob(os.path.join(<dir>, "<split>_-_*")) *)
Glob(split) ==
    { x \in folder : x.dir = GlobDir(split)
                     /\ StartsWith(x.name, SplitName(split) \o SEP) }

(* Variant: no filter on the feature *)
SelectAnyFeature(split) == Glob(split)

(* [x for x in glob.glob(...) if <feature of x> in features] *)
SelectFiles(split) == { x \in Glob(split) : FeatureOf(x) \in features }

(* Variant: field [0] of the name taken for the subject *)
SubjectsFromFirstField(files) == { Split(x.name, SEP)[1] : x \in files }

(* list(set([os.path.basename(x).split("_-_")[1] for x in test_files])) *)
Subjects(files) == { SubjectOf(x) : x \in files }

(* [f for f in test_files if sub in os.path.basename(f)] *)
FilesTestSub(sub, files) == { f \in files : IsSubstring(sub, f.name) }

----------------------------------------------------------------------------
(* Data folders *)

File(dir, name) == [dir |-> dir, name |-> name]

(* <split>_-_<subject>_-_<feature>.npy *)
Name3(split, sub, feat) == SplitName(split) \o SEP \o sub \o SEP \o feat \o NPY

s1 == << "1" >>
s2 == << "2" >>
s11 == << "1", "1" >>

(* Where the split script puts the files of a split *)
DirOf(sc, split) == IF sc = "mm" THEN "." ELSE split

Stimulus(sc) == IF sc = "mm" THEN c_envelope ELSE c_mel

Recording(sc, split, sub) ==
    { File(DirOf(sc, split), Name3(split, sub, c_eeg)),
      File(DirOf(sc, split), Name3(split, sub, Stimulus(sc))) }

(* Data folders the pipeline is run on: two test subjects; two test subjects
   of which one identifier is part of the other, next to a file of another
   feature; a folder without test subjects. *)
TwoSubjects(sc) ==
    Recording(sc, "train", s1) \cup Recording(sc, "val", s1)
        \cup Recording(sc, "test", s1) \cup Recording(sc, "test", s2)

NestedSubjects(sc) ==
    Recording(sc, "train", s1) \cup Recording(sc, "val", s11)
        \cup Recording(sc, "test", s1) \cup Recording(sc, "test", s11)
        \cup { File(DirOf(sc, "test"), Name3("test", s1, << "w", "a", "v" >>)) }

NoTestSubjects(sc) == Recording(sc, "train", s1) \cup Recording(sc, "val", s1)

Folders(sc) == { TwoSubjects(sc), NestedSubjects(sc), NoTestSubjects(sc) }

(* Paths the contents of a folder are drawn from when file discovery is
   checked on its own: well-formed names, names of another feature, a name
   with two fields only, a name without the split prefix, and files of one
   split lying in the folder of another. *)
Universe(sc) ==
    { File(DirOf(sc, "test"), Name3("test", s1, c_eeg)),
      File(DirOf(sc, "test"), Name3("test", s11, c_eeg)),
      File(DirOf(sc, "test"), Name3("test", s1, c_envelope)),
      File(DirOf(sc, "test"), Name3("test", s2, c_mel)),
      File(DirOf(sc, "test"), c_test \o SEP \o c_eeg \o NPY),
      File(DirOf(sc, "test"), c_test \o << "_" >> \o s1 \o SEP \o c_eeg \o NPY),
      File(DirOf(sc, "train"), Name3("train", s1, c_eeg)),
      File(DirOf(sc, "train"), Name3("test", s2, c_eeg)),
      File(DirOf(sc, "val"), Name3("val", s1, c_eeg)),
      File(DirOf(sc, "val"), Name3("train", s2, c_eeg)) }

----------------------------------------------------------------------------
(* Dictionaries *)

EmptyDict == [k \in {} |-> {}]

Put(d, k, v) == [x \in (DOMAIN d) \cup {k} |-> IF x = k THEN v ELSE d[x]]

----------------------------------------------------------------------------
(* Initial state *)

(* Weights: 0 are those of the freshly built model, k those after k epochs,
   OldWeights those an earlier run left in model.h5. *)
InitWeights == 0
OldWeights == epochs + 1

NoHistory ==
    [ loaded |-> FALSE, fit_started |-> FALSE, fitted |-> FALSE,
      found_train |-> FALSE, found_val |-> FALSE,
      ckpt_written |-> FALSE, log_written |-> FALSE,
      opens |-> 0, dumps |-> 0,
      best_loss |-> Inf, best_epoch |-> {}, since_best |-> 0, ran |-> 0,
      produced |-> {}, evals |-> EmptyDict ]

InitCommon ==
    /\ script \in { "mm", "reg" }
    /\ only_evaluate \in BOOLEAN
    \* fit(workers=..., use_multiprocessing=...) of the regression script is
    \* accepted only by the releases whose EarlyStopping restores the best
    \* weights when it stops the training, not at the end of the training.
    /\ restores_at_end \in (IF script = "mm" THEN BOOLEAN ELSE { FALSE })
    /\ previous_run \in BOOLEAN
    /\ results_folder = previous_run
    /\ model = {}
    /\ model_h5 = (IF previous_run THEN { OldWeights } ELSE {})
    /\ training_log = (IF previous_run THEN "old" ELSE "absent")
    /\ eval_json = [state |-> IF previous_run THEN "old" ELSE "absent", data |-> EmptyDict]
    /\ train_files = {}
    /\ val_files = {}
    /\ test_files = {}
    /\ subjects = {}
    /\ datasets_test = EmptyDict
    /\ todo = {}
    /\ evaluating = {}
    /\ evaluation = EmptyDict
    /\ epoch = 0
    /\ stop_training = FALSE
    /\ mc_best = Inf
    /\ es_best = Inf
    /\ es_wait = 0
    /\ es_best_weights = {}
    /\ hist = NoHistory

Init ==
    /\ InitCommon
    /\ folder \in Folders(script)
    /\ pc = "config"

----------------------------------------------------------------------------
(* Callbacks of model.fit *)

(* np.less(current, best): the monitor_op of ModelCheckpoint and of
   EarlyStopping for val_loss *)
IsImprovement(current, best) == current < best

(* ModelCheckpoint(model_path, save_best_only=True).on_epoch_end: the model
   of this epoch, of weights w, is saved when val_loss improved. *)
ModelCheckpoint(val_loss, w) ==
    IF IsImprovement(val_loss, mc_best)
    THEN [best |-> val_loss, file |-> { w }, saved |-> TRUE]
    ELSE [best |-> mc_best, file |-> model_h5, saved |-> FALSE]

(* EarlyStopping(patience=patience, restore_best_weights=True).on_epoch_end
   at the end of epoch number e (counted from 0), the model having weights w *)
EarlyStopping(val_loss, e, w) ==
    LET first == IF es_best_weights = {} THEN { w } ELSE es_best_weights
        wait == es_wait + 1
    IN  IF IsImprovement(val_loss, es_best)
        THEN [best |-> val_loss, best_weights |-> { w }, wait |-> 0,
              stop |-> stop_training, weights |-> { w }]
        ELSE IF wait >= patience /\ e > 0
        THEN [best |-> es_best, best_weights |-> first, wait |-> wait,
              stop |-> TRUE, weights |-> first]
        ELSE [best |-> es_best, best_weights |-> first, wait |-> wait,
              stop |-> stop_training, weights |-> { w }]

(* Variant: stop_training is not looked at *)
FitIgnoresStop == epoch < epochs

(* The training loop goes on: for epoch in range(epochs), left by
   `if self.stop_training: break` *)
FitGoesOn == epoch < epochs /\ ~stop_training

(* EarlyStopping.on_train_end: the weights the model has after model.fit *)
WeightsAfterFit ==
    IF restores_at_end /\ es_best_weights # {} THEN es_best_weights ELSE model

----------------------------------------------------------------------------
(* The steps of the scripts *)

(* Variant: the exception is caught and the script goes on to dump the
   evaluation it has. *)
Swallowed == "dump"

(* An exception nothing catches: the script ends where it is. *)
Uncaught == "failed"

(* config = load_config(...) / json.load(fp) *)
LoadConfig ==
    /\ pc = "config"
    /\ pc' = "mkdir"
    /\ UNCHANGED << script, only_evaluate, restores_at_end, previous_run, folder,
                    results_folder, model, model_h5, training_log, train_files,
                    val_files, test_files, subjects, datasets_test, todo,
                    evaluating, evaluation, eval_json, epoch, stop_training,
                    mc_best, es_best, es_wait, es_best_weights, hist >>

(* os.makedirs(results_folder, exist_ok=True) *)
MakeResultsFolder ==
    /\ pc = "mkdir"
    /\ results_folder' = TRUE
    /\ pc' = "model"
    /\ UNCHANGED << script, only_evaluate, restores_at_end, previous_run, folder,
                    model, model_h5, training_log, train_files,
                    val_files, test_files, subjects, datasets_test, todo,
                    evaluating, evaluation, eval_json, epoch, stop_training,
                    mc_best, es_best, es_wait, es_best_weights, hist >>

(* if only_evaluate: ... else: ... *)
Branch == IF only_evaluate THEN "load" ELSE "train_files"

(* model = dilation_model(...) / model = vlaai(); model.compile(...) *)
CreateModel ==
    /\ pc = "model"
    /\ model' = { InitWeights }
    /\ pc' = Branch
    /\ UNCHANGED << script, only_evaluate, restores_at_end, previous_run, folder,
                    results_folder, model_h5, training_log, train_files,
                    val_files, test_files, subjects, datasets_test, todo,
                    evaluating, evaluation, eval_json, epoch, stop_training,
                    mc_best, es_best, es_wait, es_best_weights, hist >>

(* Variant: the loaded model is dropped, the model built before is kept *)
NotLoaded == model

(* What load_model(model_path) returns / load_weights(model_path) sets *)
Loaded == model_h5

(* model = tf.keras.models.load_model(model_path) /
   model.load_weights(model_path): raises when model.h5 is missing *)
LoadModel ==
    /\ pc = "load"
    /\ model_h5 # {}
    /\ model' = Loaded
    /\ hist' = [hist EXCEPT !.loaded = TRUE, !.produced = Loaded]
    /\ pc' = "test_files"
    /\ UNCHANGED << script, only_evaluate, restores_at_end, previous_run, folder,
                    results_folder, model_h5, training_log, train_files,
                    val_files, test_files, subjects, datasets_test, todo,
                    evaluating, evaluation, eval_json, epoch, stop_training,
                    mc_best, es_best, es_wait, es_best_weights >>

(* train_files = [...]; dataset_train = create_tf_dataset(...) *)
FindTrainFiles ==
    /\ pc = "train_files"
    /\ train_files' = SelectFiles("train")
    /\ hist' = [hist EXCEPT !.found_train = TRUE]
    /\ pc' = "val_files"
    /\ UNCHANGED << script, only_evaluate, restores_at_end, previous_run, folder,
                    results_folder, model, model_h5, training_log,
                    val_files, test_files, subjects, datasets_test, todo,
                    evaluating, evaluation, eval_json, epoch, stop_training,
                    mc_best, es_best, es_wait, es_best_weights >>

(* val_files = [...]; dataset_val = create_tf_dataset(...) *)
FindValFiles ==
    /\ pc = "val_files"
    /\ val_files' = SelectFiles("val")
    /\ hist' = [hist EXCEPT !.found_val = TRUE]
    /\ pc' = "fit"
    /\ UNCHANGED << script, only_evaluate, restores_at_end, previous_run, folder,
                    results_folder, model, model_h5, training_log, train_files,
                    test_files, subjects, datasets_test, todo,
                    evaluating, evaluation, eval_json, epoch, stop_training,
                    mc_best, es_best, es_wait, es_best_weights >>

(* model.fit(...), on_train_begin: the callbacks start afresh and CSVLogger
   opens training_log.csv for writing *)
FitBegin ==
    /\ pc = "fit"
    /\ epoch' = 0
    /\ stop_training' = FALSE
    /\ mc_best' = Inf
    /\ es_best' = Inf
    /\ es_wait' = 0
    /\ es_best_weights' = {}
    /\ training_log' = "new"
    /\ hist' = [hist EXCEPT !.fit_started = TRUE, !.log_written = TRUE]
    /\ pc' = "epoch"
    /\ UNCHANGED << script, only_evaluate, restores_at_end, previous_run, folder,
                    results_folder, model, model_h5, train_files,
                    val_files, test_files, subjects, datasets_test, todo,
                    evaluating, evaluation, eval_json >>

(* One epoch of model.fit ending with validation loss val_loss, then
   on_epoch_end of ModelCheckpoint, CSVLogger and EarlyStopping, in the
   order of the callbacks list *)
FitEpoch(val_loss) ==
    /\ pc = "epoch"
    /\ FitGoesOn
    /\ LET w == epoch + 1
           mc == ModelCheckpoint(val_loss, w)
           es == EarlyStopping(val_loss, epoch, w)
           better == val_loss < hist.best_loss
       IN  /\ mc_best' = mc.best
           /\ model_h5' = mc.file
           /\ es_best' = es.best
           /\ es_wait' = es.wait
           /\ es_best_weights' = es.best_weights
           /\ stop_training' = es.stop
           /\ model' = es.weights
           /\ hist' = [hist EXCEPT
                 !.ckpt_written = @ \/ mc.saved,
                 !.best_loss = IF better THEN val_loss ELSE @,
                 !.best_epoch = IF better THEN { w } ELSE @,
                 !.since_best = IF better THEN 0 ELSE @ + 1,
                 !.ran = w]
    /\ epoch' = epoch + 1
    /\ UNCHANGED << script, only_evaluate, restores_at_end, previous_run, folder,
                    pc, results_folder, training_log, train_files,
                    val_files, test_files, subjects, datasets_test, todo,
                    evaluating, evaluation, eval_json >>

(* model.fit returns: on_train_end of the callbacks; the callback objects
   are gone with the call *)
FitEnd ==
    /\ pc = "epoch"
    /\ ~FitGoesOn
    /\ model' = WeightsAfterFit
    /\ epoch' = 0
    /\ stop_training' = FALSE
    /\ mc_best' = Inf
    /\ es_best' = Inf
    /\ es_wait' = 0
    /\ es_best_weights' = {}
    /\ hist' = [hist EXCEPT !.fitted = TRUE, !.best_loss = Inf, !.since_best = 0,
                            !.ran = 0, !.produced = WeightsAfterFit]
    /\ pc' = "test_files"
    /\ UNCHANGED << script, only_evaluate, restores_at_end, previous_run, folder,
                    results_folder, model_h5, training_log, train_files,
                    val_files, test_files, subjects, datasets_test, todo,
                    evaluating, evaluation, eval_json >>

(* test_files = [...]; subjects = list(set(...)); datasets_test = {} *)
FindTestFiles ==
    /\ pc = "test_files"
    /\ test_files' = SelectFiles("test")
    /\ subjects' = Subjects(test_files')
    /\ datasets_test' = EmptyDict
    /\ todo' = subjects'
    /\ pc' = "datasets"
    /\ UNCHANGED << script, only_evaluate, restores_at_end, previous_run, folder,
                    results_folder, model, model_h5, training_log, train_files,
                    val_files, evaluating, evaluation, eval_json, epoch,
                    stop_training, mc_best, es_best, es_wait, es_best_weights,
                    hist >>

(* for sub in subjects: files_test_sub = [...];
   datasets_test[sub] = create_tf_dataset(<generator>(files_test_sub, ...)) *)
BuildTestDataset(sub) ==
    /\ pc = "datasets"
    /\ sub \in todo
    /\ datasets_test' = Put(datasets_test, sub, FilesTestSub(sub, test_files))
    /\ todo' = todo \ { sub }
    /\ UNCHANGED << script, only_evaluate, restores_at_end, previous_run, folder,
                    pc, results_folder, model, model_h5, training_log,
                    train_files, val_files, test_files, subjects, evaluating,
                    evaluation, eval_json, epoch, stop_training, mc_best,
                    es_best, es_wait, es_best_weights, hist >>

(* evaluation = evaluate_model(model, datasets_test), entered:
   evaluation = {}; for subject, ds_test in test_dict.items() *)
EvaluateModel ==
    /\ pc = "datasets"
    /\ todo = {}
    /\ evaluation' = EmptyDict
    /\ todo' = DOMAIN datasets_test
    /\ pc' = "evaluate"
    /\ UNCHANGED << script, only_evaluate, restores_at_end, previous_run, folder,
                    results_folder, model, model_h5, training_log, train_files,
                    val_files, test_files, subjects, datasets_test, evaluating,
                    eval_json, epoch, stop_training, mc_best, es_best, es_wait,
                    es_best_weights, hist >>

(* Variant: an iteration starts while another one runs *)
MayEvaluateConcurrently(subject) == subject \in todo

(* The loop of evaluate_model may take its next key: the driver runs one
   iteration at a time. *)
MayEvaluate(subject) == subject \in todo /\ evaluating = {}

(* One iteration of the loop begins: model.predict / model.evaluate run
   on the dataset of the subject *)
EvaluateBegin(subject) ==
    /\ pc = "evaluate"
    /\ MayEvaluate(subject)
    /\ evaluating' = evaluating \cup { subject }
    /\ todo' = todo \ { subject }
    /\ hist' = [hist EXCEPT !.evals =
                  Put(@, subject, IF subject \in DOMAIN @ THEN @[subject] + 1 ELSE 1)]
    /\ UNCHANGED << script, only_evaluate, restores_at_end, previous_run, folder,
                    pc, results_folder, model, model_h5, training_log,
                    train_files, val_files, test_files, subjects, datasets_test,
                    evaluation, eval_json, epoch, stop_training, mc_best,
                    es_best, es_wait, es_best_weights >>

(* dict(zip(metrics, results)) [+ pearson_correlation_per_band]: the scores
   of the model on the dataset of the subject *)
Scores(subject) ==
    [ model |-> model, data |-> datasets_test[subject],
      pearson_correlation_per_band |-> (script = "reg") ]

(* evaluation[subject] = dict(zip(metrics, results)) *)
EvaluateEnd(subject) ==
    /\ pc = "evaluate"
    /\ subject \in evaluating
    /\ evaluation' = Put(evaluation, subject, Scores(subject))
    /\ evaluating' = evaluating \ { subject }
    /\ UNCHANGED << script, only_evaluate, restores_at_end, previous_run, folder,
                    pc, results_folder, model, model_h5, training_log,
                    train_files, val_files, test_files, subjects, datasets_test,
                    todo, eval_json, epoch, stop_training, mc_best, es_best,
                    es_wait, es_best_weights, hist >>

(* Variant: evaluate_model returns before the loop has visited every key *)
EvaluatedEarly == evaluating = {}

(* evaluate_model has returned *)
Evaluated == todo = {} /\ evaluating = {}

(* return evaluation; with open(results_path, "w") as fp *)
OpenResults ==
    /\ pc = "evaluate"
    /\ Evaluated
    /\ eval_json' = [state |-> "open", data |-> EmptyDict]
    /\ hist' = [hist EXCEPT !.opens = @ + 1]
    /\ pc' = "dump"
    /\ UNCHANGED << script, only_evaluate, restores_at_end, previous_run, folder,
                    results_folder, model, model_h5, training_log, train_files,
                    val_files, test_files, subjects, datasets_test, todo,
                    evaluating, evaluation, epoch, stop_training, mc_best,
                    es_best, es_wait, es_best_weights >>

(* json.dump(evaluation, fp) *)
DumpResults ==
    /\ pc = "dump"
    /\ eval_json' = [state |-> "written", data |-> evaluation]
    /\ hist' = [hist EXCEPT !.dumps = @ + 1]
    /\ pc' = "done"
    /\ UNCHANGED << script, only_evaluate, restores_at_end, previous_run, folder,
                    results_folder, model, model_h5, training_log, train_files,
                    val_files, test_files, subjects, datasets_test, todo,
                    evaluating, evaluation, epoch, stop_training, mc_best,
                    es_best, es_wait, es_best_weights >>

(* Any step may raise (a missing or unreadable file, a shape mismatch, a full
   disk); loading raises for certain when model.h5 is missing. *)
Raise ==
    /\ pc \notin { "done", "failed" }
    /\ pc' = Uncaught
    /\ UNCHANGED << script, only_evaluate, restores_at_end, previous_run, folder,
                    results_folder, model, model_h5, training_log, train_files,
                    val_files, test_files, subjects, datasets_test, todo,
                    evaluating, evaluation, eval_json, epoch, stop_training,
                    mc_best, es_best, es_wait, es_best_weights, hist >>

Step ==
    \/ LoadConfig
    \/ MakeResultsFolder
    \/ CreateModel
    \/ LoadModel
    \/ FindTrainFiles
    \/ FindValFiles
    \/ FitBegin
    \/ \E val_loss \in Losses : FitEpoch(val_loss)
    \/ FitEnd
    \/ FindTestFiles
    \/ \E sub \in subjects : BuildTestDataset(sub)
    \/ EvaluateModel
    \/ \E subject \in DOMAIN datasets_test : EvaluateBegin(subject)
    \/ \E subject \in DOMAIN datasets_test : EvaluateEnd(subject)
    \/ OpenResults
    \/ DumpResults

Next == Step \/ Raise

Spec == Init /\ [][Next]_vars

(* The interpreter runs the script on: a step that can be taken is taken,
   unless an exception ends the run. Termination is checked on the folder
   with two test subjects. *)
InitFair == Init /\ folder = TwoSubjects(script)

FairSpec == InitFair /\ [][Next]_vars /\ WF_vars(Step)

----------------------------------------------------------------------------
(* File discovery on its own: the three file lists, the subjects and the
   files of each subject, computed for any contents of the data folder. *)

InitFiles ==
    /\ InitCommon
    /\ folder \in SUBSET Universe(script)
    /\ pc = "files"

DiscoverFiles ==
    /\ pc = "files"
    /\ train_files' = SelectFiles("train")
    /\ val_files' = SelectFiles("val")
    /\ test_files' = SelectFiles("test")
    /\ subjects' = Subjects(test_files')
    /\ datasets_test' = [sub \in subjects' |-> FilesTestSub(sub, test_files')]
    /\ pc' = "found"
    /\ UNCHANGED << script, only_evaluate, restores_at_end, previous_run, folder,
                    results_folder, model, model_h5, training_log, todo,
                    evaluating, evaluation, eval_json, epoch, stop_training,
                    mc_best, es_best, es_wait, es_best_weights, hist >>

NextFiles == DiscoverFiles

SpecFiles == InitFiles /\ [][NextFiles]_vars

----------------------------------------------------------------------------
(* Properties *)

Fields(x) == Split(x.name, SEP)

(* The second `_-_`-separated field of the basename *)
SubjectField(x) == Fields(x)[2]

(* The last `_-_`-separated field of the basename, cut at the first "." *)
FeatureField(x) == Split(Fields(x)[Len(Fields(x))], DOT)[1]

(* The files of the split's folder that follow the naming convention for the
   split and carry one of the script's features *)
Conventional(split) ==
    { x \in folder : /\ x.dir = (IF script = "mm" THEN "." ELSE split)
                     /\ StartsWith(x.name, SplitName(split) \o SEP)
                     /\ FeatureField(x) \in { c_eeg, Stimulus(script) } }

AfterModelStep == { "test_files", "datasets", "evaluate", "dump", "done" }

(* C1: the steps of a run happen in the order of the pipeline: the results
   folder and the model object exist before the model is fit or loaded, the
   model is fit or loaded before a test subject is evaluated, every test
   subject is evaluated (once) before eval.json is opened, and eval.json is
   opened and written once, the write being the last step of the run. *)
C1_PipelineOrder ==
    /\ (hist.loaded \/ hist.fit_started) => (results_folder /\ model # {})
    /\ (evaluating # {} \/ DOMAIN evaluation # {} \/ DOMAIN hist.evals # {})
          => (hist.loaded \/ hist.fitted)
    /\ hist.opens > 0 =>
          /\ DOMAIN evaluation = subjects
          /\ evaluating = {}
          /\ \A s \in subjects : s \in DOMAIN hist.evals /\ hist.evals[s] = 1
    /\ hist.opens <= 1
    /\ hist.dumps <= hist.opens
    /\ (pc = "done") <=> (hist.dumps = 1)
    /\ pc = "done" => eval_json.state = "written"

C1_Witness ==
    /\ pc = "done"
    /\ ~previous_run
    /\ hist.fitted
    /\ Cardinality(subjects) = 2

(* C2: after a run that completes, eval.json has one entry for each subject
   that is the second field of a selected test file and no other entry, and
   the dict evaluate_model returns has the keys of test_dict. *)
C2_EvalJsonKeys ==
    /\ pc = "done" =>
          DOMAIN eval_json.data = { SubjectField(x) : x \in Conventional("test") }
    /\ pc \in { "dump", "done" } => DOMAIN evaluation = DOMAIN datasets_test

C2_Witness ==
    /\ pc = "done"
    /\ Cardinality(DOMAIN eval_json.data) = 2

(* C3 as stated: for each split a file is selected if and only if it lies in
   the folder of the split, its name starts with `<split>_-_` and its feature
   field is one of the script's features; and every selected file has three
   fields: a split, a subject and a feature. *)
C3_ThreeFields ==
    pc = "found" =>
        /\ train_files = Conventional("train")
        /\ val_files = Conventional("val")
        /\ test_files = Conventional("test")
        /\ \A x \in train_files \cup val_files \cup test_files : Len(Fields(x)) >= 3

(* C3 amended: the selection is as stated, and every selected file has at
   least two fields, the split and a last field whose stem is a feature; the
   subject field may be that same last field. *)
C3_Selection ==
    pc = "found" =>
        /\ train_files = Conventional("train")
        /\ val_files = Conventional("val")
        /\ test_files = Conventional("test")
        /\ \A x \in train_files \cup val_files \cup test_files :
              /\ Len(Fields(x)) >= 2
              /\ Fields(x)[1] \in { c_train, c_val, c_test }

C3_Witness ==
    /\ pc = "found"
    /\ \E x \in test_files : Len(Fields(x)) = 2
    /\ \E x \in folder \ test_files : StartsWith(x.name, c_test \o SEP) /\ x.dir = GlobDir("test")
    /\ train_files # {}

(* C4: exactly one of fit and load happens, chosen by only_evaluate: with
   only_evaluate no train or validation file is looked for, nothing is
   trained and model.h5 and training_log.csv are not written; without it
   nothing is loaded. The model evaluated is the one that step produced. *)
C4_FitOrLoad ==
    /\ ~(hist.loaded /\ hist.fit_started)
    /\ only_evaluate =>
          /\ ~hist.fit_started /\ ~hist.fitted
          /\ ~hist.found_train /\ ~hist.found_val
          /\ ~hist.ckpt_written /\ ~hist.log_written
          /\ model_h5 = (IF previous_run THEN { OldWeights } ELSE {})
          /\ training_log = (IF previous_run THEN "old" ELSE "absent")
    /\ ~only_evaluate => ~hist.loaded
    /\ pc \in AfterModelStep =>
          IF only_evaluate THEN hist.loaded ELSE hist.fitted
    /\ \A s \in DOMAIN evaluation :
          /\ evaluation[s].model = hist.produced
          /\ IF only_evaluate
             THEN hist.produced = model_h5 /\ model_h5 # {}
             ELSE \E w \in 1 .. epochs : hist.produced = { w }

C4_Witness ==
    /\ only_evaluate
    /\ pc = "done"
    /\ Cardinality(DOMAIN evaluation) = 2

InitialEvalJson ==
    [state |-> IF previous_run THEN "old" ELSE "absent", data |-> EmptyDict]

(* C5: a failure ends the run: no step follows it; loading a missing
   model.h5 fails; and eval.json is neither created nor modified unless
   every test subject has been evaluated. *)
C5_FailureEndsRun ==
    [][ /\ pc # "failed"
        /\ (pc = "load" /\ model_h5 = {}) => pc' = "failed"
        /\ eval_json' # InitialEvalJson' =>
              /\ pc' \in { "dump", "done", "failed" }
              /\ DOMAIN evaluation' = { SubjectField(x) : x \in Conventional("test") }
              /\ todo' = {} /\ evaluating' = {}
      ]_vars

C5_Witness ==
    /\ pc = "failed"
    /\ Cardinality(DOMAIN evaluation) = 1
    /\ Cardinality(subjects) = 2
    /\ eval_json = InitialEvalJson
    /\ previous_run

(* C6: the subjects are evaluated one after another: at most one is under
   evaluation at any time, each is evaluated once, the evaluation dict is
   written only for the one subject under evaluation and eval.json only when
   no subject is under evaluation. *)
C6_Sequential ==
    [][ /\ Cardinality(evaluating') <= 1
        /\ \A s \in DOMAIN hist'.evals : hist'.evals[s] = 1
        /\ (evaluation' # evaluation /\ pc = "evaluate") =>
              \E s \in subjects :
                  /\ evaluating = { s }
                  /\ evaluating' = {}
                  /\ DOMAIN evaluation' = DOMAIN evaluation \cup { s }
                  /\ \A t \in DOMAIN evaluation : evaluation'[t] = evaluation[t]
        /\ eval_json' # eval_json => (evaluating = {} /\ evaluating' = {})
        /\ pc' = "done" => DOMAIN hist'.evals = subjects'
      ]_vars

C6_Witness ==
    /\ pc = "evaluate"
    /\ Cardinality(DOMAIN evaluation) = 1
    /\ Cardinality(evaluating) = 1

(* C7: the file list of every test subject is the set of selected test
   files whose subject field is that subject, so that the lists partition
   the selected test files. *)
C7_SubjectFiles ==
    pc \in { "evaluate", "dump", "done" } =>
        /\ \A s \in subjects :
              datasets_test[s] = { f \in test_files : SubjectField(f) = s }
        /\ \A s, t \in subjects : s # t => datasets_test[s] \cap datasets_test[t] = {}

Ended == pc \in { "done", "failed" }

(* C8 as stated: training runs at most `epochs` epochs and stops as soon as
   the validation loss has not improved for `patience` epochs in a row; once
   it has ended, the evaluation and the write of eval.json happen: no run
   ends after the training without eval.json written. *)
C8_AlwaysWrites ==
    /\ hist.ran <= epochs
    /\ pc = "epoch" =>
          /\ hist.since_best <= patience
          /\ stop_training <=> (hist.since_best = patience)
    /\ (hist.fitted /\ Ended) => eval_json.state = "written"

(* C8 amended: training always ends, within `epochs` epochs and as soon as
   the validation loss has not improved for `patience` epochs in a row; once
   it has ended, the run goes on until eval.json is written unless a later
   step fails, which ends the run. *)
C8_Terminates ==
    /\ [](hist.ran <= epochs)
    /\ [](pc = "epoch" =>
            /\ hist.since_best <= patience
            /\ stop_training <=> (hist.since_best = patience))
    /\ (pc = "fit") ~> (hist.fitted \/ pc = "failed")
    /\ hist.fitted ~> (eval_json.state = "written" \/ pc = "failed")

C8_Witness ==
    /\ pc = "epoch"
    /\ stop_training
    /\ epoch < epochs
    /\ hist.since_best = patience

(* C9: after every epoch model.h5 holds the model of the epoch with the
   lowest validation loss so far, and when training has ended the model in
   memory, the one evaluated, has the weights of that epoch, the same as
   model.h5. *)
C9_BestModel ==
    /\ (pc = "epoch" /\ epoch > 0) => model_h5 = hist.best_epoch
    /\ hist.fitted => (model = hist.best_epoch /\ model_h5 = model)
    /\ \A s \in DOMAIN evaluation :
          ~only_evaluate => evaluation[s].model = hist.best_epoch

(* C10: the train, validation and test files selected are pairwise
   disjoint. *)
C10_Disjoint ==
    pc = "found" =>
        /\ train_files \cap val_files = {}
        /\ train_files \cap test_files = {}
        /\ val_files \cap test_files = {}

C10_Witness ==
    /\ pc = "found"
    /\ train_files # {}
    /\ val_files # {}
    /\ test_files # {}
    /\ script = "mm"

====
